---- MODULE Spec2Model ----
(***************************************************************************)
(* A model of lidR's TreeSegment (src/src/TreeSegment.cpp): the tracker of *)
(* a growing point cluster with its incrementally maintained convex hull,  *)
(* the four shape scores computed from it, and the 2D outlier filter.      *)
(*                                                                         *)
(* Numbers.  Coordinates are integers, so that every geometric predicate   *)
(* (side of a line, containment, area) is exact.  A polygon with integer   *)
(* vertices has a half-integer area: `area` and `diff_area` hold TWICE the *)
(* C++ value.  `dist` and `radius` hold the SQUARE of the C++ value (the   *)
(* C++ value is the square root of an integer).  Scores are fixed-point    *)
(* hundredths, or one of the IEEE specials a division by zero produces.    *)
(***************************************************************************)
EXTENDS Integers, Sequences, FiniteSets, TLC

\* ------------------------------------------------------------------ bounds
MaxCoord == 2      \* x and y of a point range over 0..MaxCoord
MaxZ == 2          \* z of a point ranges over 1..MaxZ
MaxPoints == 4     \* SpecGrow calls addPoint while nbPoints < MaxPoints
MaxScored == 3     \* Spec calls addPoint while nbPoints < MaxScored
MaxK == 1          \* the k of getSize(k) / getScore(k) ranges over 1..MaxK
MaxVertices == 10  \* SpecRegular calls addPoint while nbPoints < MaxVertices
MaxNeighbours == 6 \* SpecFilter filters a reference point and up to MaxNeighbours neighbours
MaxOffset == 1     \* the points SpecFilter filters have x in 0..MaxOffset and y = 0

Coords == 0..MaxCoord
Heights == 1..MaxZ
PointXYZ == [x : Coords, y : Coords, z : Heights]

VARIABLES
  nbPoints,      \* TreeSegment::nbPoints
  points,        \* TreeSegment::points, a sequence of PointXYZ
  convex_hull,   \* TreeSegment::convex_hull, the outer ring: a sequence of <<x, y>>
  pointsCH,      \* TreeSegment::pointsCH, the copy of the ring taken by calculateArea
  area,          \* TreeSegment::area (doubled)
  diff_area,     \* TreeSegment::diff_area (doubled)
  dist,          \* TreeSegment::dist (squared)
  Zmax,          \* TreeSegment::Zmax, the cached highest point
  scoreS, scoreO, scoreR, scoreC, scoreGlobal,
  H,             \* the local H of the last getSize call
  D,             \* the local D of the last getSize call
  radius,        \* the local radius of the last getRegularity call (squared)
  lastOp,        \* the member function that ran last
  subProfile,    \* the subProfile argument of apply2DFilter
  subProfileSubset  \* the subProfileSubset argument of apply2DFilter

vars == <<nbPoints, points, convex_hull, pointsCH, area, diff_area, dist, Zmax,
          scoreS, scoreO, scoreR, scoreC, scoreGlobal, H, D, radius, lastOp,
          subProfile, subProfileSubset>>

\* ---------------------------------------------------------------- geometry
\* point_t p(pt.x, pt.y)
point_t(pt) == <<pt.x, pt.y>>

Sign(v) == IF v > 0 THEN 1 ELSE IF v < 0 THEN -1 ELSE 0

\* boost's side strategy: 1 when p is left of the directed line a -> b,
\* -1 when right of it, 0 when on it.
Side(a, b, p) ==
  Sign((b[1] - a[1]) * (p[2] - a[2]) - (b[2] - a[2]) * (p[1] - a[1]))

\* boost::geometry::less on points: by x, then by y.
Less(p, q) == p[1] < q[1] \/ (p[1] = q[1] /\ p[2] < q[2])

RingSet(ring) == {ring[i] : i \in 1..Len(ring)}

RECURSIVE SortPoints(_)
SortPoints(S) ==
  IF S = {} THEN <<>>
  ELSE LET m == CHOOSE p \in S : \A q \in S \ {p} : Less(p, q)
       IN  <<m>> \o SortPoints(S \ {m})

Reverse(s) == [i \in 1..Len(s) |-> s[Len(s) + 1 - i]]

\* add_to_hull of boost's graham_andrew, after the push_back: while the one
\* but last point is not strictly on the Factor side of the line from the
\* third last to the last point, it is removed.
RECURSIVE ReduceHull(_, _)
ReduceHull(out, Factor) ==
  LET n == Len(out) IN
  IF n >= 3 /\ Factor * Side(out[n - 2], out[n], out[n - 1]) <= 0
  THEN ReduceHull(SubSeq(out, 1, n - 2) \o <<out[n]>>, Factor)
  ELSE out

add_to_hull(p, out, Factor) == ReduceHull(Append(out, p), Factor)

RECURSIVE AddAll(_, _, _)
AddAll(sorted, out, Factor) ==
  IF sorted = <<>> THEN out
  ELSE AddAll(Tail(sorted), add_to_hull(Head(sorted), out, Factor), Factor)

build_half_hull(sorted, left, right, Factor) ==
  add_to_hull(right, AddAll(sorted, <<left>>, Factor), Factor)

\* boost::geometry::convex_hull(ring, out) with a clockwise, closed output
\* ring (Andrew's monotone chain): the upper half from the leftmost to the
\* rightmost point, then the lower half back; an output of fewer than four
\* points is padded with its first point.  An empty input gives an empty
\* output.
ConvexHullOf(ring) ==
  IF ring = <<>> THEN <<>>
  ELSE LET S     == RingSet(ring)
           left  == CHOOSE p \in S : \A q \in S \ {p} : Less(p, q)
           right == CHOOSE p \in S : \A q \in S \ {p} : Less(q, p)
           upper == build_half_hull(
                      SortPoints({p \in S : Side(left, right, p) = 1}),
                      left, right, 1)
           lower == build_half_hull(
                      SortPoints({p \in S : Side(left, right, p) = -1}),
                      left, right, -1)
           out   == upper \o Tail(Reverse(lower))
       IN  IF Len(upper) + Len(lower) - 1 < 4 THEN Append(out, upper[1]) ELSE out

\* Whether p lies in the closed region of a convex clockwise ring: right of,
\* or on, every edge, and within the ring's extent (which decides the ring
\* that has collapsed to a segment or to a point).
InRing(p, ring) ==
  /\ \A i \in 1..(Len(ring) - 1) : Side(ring[i], ring[i + 1], p) <= 0
  /\ \E q \in RingSet(ring) : q[1] <= p[1]
  /\ \E q \in RingSet(ring) : q[1] >= p[1]
  /\ \E q \in RingSet(ring) : q[2] <= p[2]
  /\ \E q \in RingSet(ring) : q[2] >= p[2]

\* A containment test that only looks at the ring's bounding box.
covered_by_box(p, ring) ==
  /\ Len(ring) >= 4
  /\ \E q \in RingSet(ring) : q[1] <= p[1]
  /\ \E q \in RingSet(ring) : q[1] >= p[1]
  /\ \E q \in RingSet(ring) : q[2] <= p[2]
  /\ \E q \in RingSet(ring) : q[2] >= p[2]

\* boost::geometry::covered_by(p, polygon): a ring of fewer than four points
\* (the minimum of a closed ring) covers nothing; otherwise the point is
\* covered when it is inside the ring or on its boundary.
covered_by(p, ring) == Len(ring) >= 4 /\ InRing(p, ring)

\* boost::geometry::area of a clockwise ring, doubled (the shoelace sum); 0
\* for a ring of fewer than four points.
RECURSIVE Shoelace(_, _)
Shoelace(ring, i) ==
  IF i >= Len(ring) THEN 0
  ELSE (ring[i + 1][1] * ring[i][2] - ring[i][1] * ring[i + 1][2])
       + Shoelace(ring, i + 1)

AreaOf(ring) == IF Len(ring) < 4 THEN 0 ELSE Shoelace(ring, 1)

\* (a.x - b.x)^2 + (a.y - b.y)^2 of two points given as <<x, y>>
SqDist(a, b) == (a[1] - b[1]) * (a[1] - b[1]) + (a[2] - b[2]) * (a[2] - b[2])

\* ------------------------------------------------------------- arithmetic
\* The largest r with r * r <= v (std::sqrt, rounded down); the search stays
\* below the root of the largest 32-bit integer.
RECURSIVE IsqrtIter(_, _, _)
IsqrtIter(v, lo, hi) ==
  IF hi - lo <= 1 THEN lo
  ELSE LET mid == (lo + hi) \div 2
       IN  IF mid * mid <= v THEN IsqrtIter(v, mid, hi) ELSE IsqrtIter(v, lo, mid)

Isqrt(v) == IsqrtIter(v, 0, IF v + 1 < 46341 THEN v + 1 ELSE 46341)

\* std::sqrt(v) in hundredths.
SqrtCenti(v) == Isqrt(v * 10000)

\* std::log(h) in hundredths, for the heights h >= 1 of the model.
LnCenti(h) == <<0, 69, 110, 139, 161, 179, 195, 208>>[h]

\* Fixed-point values and the IEEE specials.
Num(v) == <<"num", v>>
NaN == <<"nan", 0>>
PosInf == <<"inf", 0>>

RECURSIVE Insert(_, _)
Insert(v, sorted) ==
  IF sorted = <<>> THEN <<v>>
  ELSE IF v <= Head(sorted) THEN <<v>> \o sorted
  ELSE <<Head(sorted)>> \o Insert(v, Tail(sorted))

\* sort(v.begin(), v.end()) of a vector of numbers
RECURSIVE SortAscending(_)
SortAscending(s) ==
  IF s = <<>> THEN <<>> ELSE Insert(Head(s), SortAscending(Tail(s)))

RECURSIVE SumSeq(_)
SumSeq(s) == IF s = <<>> THEN 0 ELSE Head(s) + SumSeq(Tail(s))

\* ------------------------------------------------------------- the tracker
\* The object as one record, so that member functions compose.
Self ==
  [nbPoints |-> nbPoints, points |-> points, convex_hull |-> convex_hull,
   pointsCH |-> pointsCH, area |-> area, diff_area |-> diff_area,
   dist |-> dist, Zmax |-> Zmax, scoreS |-> scoreS, scoreO |-> scoreO,
   scoreR |-> scoreR, scoreC |-> scoreC, scoreGlobal |-> scoreGlobal,
   H |-> H, D |-> D, radius |-> radius]

Becomes(s, op) ==
  /\ nbPoints' = s.nbPoints
  /\ points' = s.points
  /\ convex_hull' = s.convex_hull
  /\ pointsCH' = s.pointsCH
  /\ area' = s.area
  /\ diff_area' = s.diff_area
  /\ dist' = s.dist
  /\ Zmax' = s.Zmax
  /\ scoreS' = s.scoreS
  /\ scoreO' = s.scoreO
  /\ scoreR' = s.scoreR
  /\ scoreC' = s.scoreC
  /\ scoreGlobal' = s.scoreGlobal
  /\ H' = s.H
  /\ D' = s.D
  /\ radius' = s.radius
  /\ lastOp' = op
  /\ UNCHANGED <<subProfile, subProfileSubset>>

NoD == [n |-> 0, by |-> "none", den |-> 1]

\* TreeSegment::TreeSegment(): no point, an empty hull.  Zmax is not
\* initialised: it holds whatever the build leaves there.
EmptySegment(garbage) ==
  [nbPoints |-> 0, points |-> <<>>, convex_hull |-> <<>>, pointsCH |-> <<>>,
   area |-> 0, diff_area |-> 0, dist |-> 0, Zmax |-> garbage,
   scoreS |-> Num(0), scoreO |-> Num(0), scoreR |-> Num(0), scoreC |-> Num(0),
   scoreGlobal |-> Num(0), H |-> 0, D |-> NoD, radius |-> 0]

\* TreeSegment::TreeSegment(PointXYZ &pt): the hull is the one-point ring of
\* the apex.
SeededSegment(pt) ==
  [nbPoints |-> 1, points |-> <<pt>>, convex_hull |-> <<point_t(pt)>>,
   pointsCH |-> <<>>, area |-> 0, diff_area |-> 0, dist |-> 0, Zmax |-> pt,
   scoreS |-> Num(0), scoreO |-> Num(0), scoreR |-> Num(0), scoreC |-> Num(0),
   scoreGlobal |-> Num(0), H |-> 0, D |-> NoD, radius |-> 0]

\* calculateArea with the difference taken the other way round and no fabs.
calculateArea_nofabs(s) ==
  IF s.nbPoints <= 2 THEN s
  ELSE [s EXCEPT !.diff_area = s.area - AreaOf(s.convex_hull),
                 !.area = AreaOf(s.convex_hull),
                 !.pointsCH = s.convex_hull,
                 !.dist = 0]

\* TreeSegment::calculateArea
calculateArea(s) ==
  IF s.nbPoints <= 2 THEN s
  ELSE LET area_noPt == s.area
           area_Pt   == AreaOf(s.convex_hull)
           d         == area_Pt - area_noPt
       IN  [s EXCEPT !.diff_area = IF d < 0 THEN -d ELSE d,
                     !.area = area_Pt,
                     !.pointsCH = s.convex_hull,
                     !.dist = 0]

\* addPoint that never assigns the new hull.
addPoint_keep_hull(s, pt) ==
  LET s1 == [s EXCEPT !.nbPoints = s.nbPoints + 1, !.points = Append(s.points, pt)]
  IN  IF covered_by(point_t(pt), s1.convex_hull) THEN s1 ELSE calculateArea(s1)

\* addPoint without the early return of a covered point.
addPoint_no_return(s, pt) ==
  LET s1 == [s EXCEPT !.nbPoints = s.nbPoints + 1, !.points = Append(s.points, pt)]
  IN  calculateArea(
        [s1 EXCEPT !.convex_hull = ConvexHullOf(Append(s1.convex_hull, point_t(pt)))])

\* TreeSegment::addPoint
addPoint(s, pt) ==
  LET s1 == [s EXCEPT !.nbPoints = s.nbPoints + 1, !.points = Append(s.points, pt)]
      p  == point_t(pt)
  IN  IF covered_by(p, s1.convex_hull) THEN s1
      ELSE calculateArea(
             [s1 EXCEPT !.convex_hull = ConvexHullOf(Append(s1.convex_hull, p))])

\* TreeSegment::updateArea: the hull of all the points, from scratch
updateArea(s) ==
  IF s.nbPoints >= 3
  THEN LET hull == ConvexHullOf([i \in 1..Len(s.points) |-> point_t(s.points[i])])
       IN  [s EXCEPT !.area = AreaOf(hull), !.pointsCH = hull, !.dist = 0]
  ELSE IF s.nbPoints = 2
  THEN [s EXCEPT !.dist = SqDist(point_t(s.points[1]), point_t(s.points[2]))]
  ELSE s

\* TreeSegment::findZMax
findZMax(s) == s.Zmax.z

\* sort(points.begin(), points.end(), ZSortPointBis<PointXYZ>()): the orders
\* std::sort may leave, every one of them by decreasing z (the order of
\* points of equal z is unspecified).
RECURSIVE SortedFrom(_, _)
SortedFrom(pts, I) ==
  IF I = {} THEN {<<>>}
  ELSE UNION {{<<pts[i]>> \o rest : rest \in SortedFrom(pts, I \ {i})} :
                i \in {i \in I : \A j \in I : pts[i].z >= pts[j].z}}

SortedByZ(pts) == SortedFrom(pts, 1..Len(pts))

\* TreeSegment::getZMax(): the trackers it may leave
getZMax(s) == {[s EXCEPT !.points = q, !.Zmax = q[1]] : q \in SortedByZ(s.points)}

\* TreeSegment::getSize
getSize(s, k) ==
  LET h   == findZMax(s)
      n   == s.nbPoints
      d   == IF s.area # 0 THEN [n |-> n, by |-> "area", den |-> s.area]
             ELSE [n |-> n, by |-> "dist", den |-> s.dist]
      ln  == LnCenti(h)
      \* nbPoints > threshold, with threshold = k * (n / den) * ln
      big == IF d.by = "area" THEN d.den * 100 > 2 * k * ln
             ELSE SqrtCenti(d.den) > k * ln
      \* n / 0 is NaN for n = 0 and +inf otherwise; log(0) is -inf, which
      \* makes the threshold -inf unless D is NaN; +inf * 0 is NaN
      sc  == IF h = 0
             THEN IF d.den = 0 /\ n = 0 THEN NaN ELSE Num(100)
             ELSE IF d.den = 0
             THEN IF n = 0 \/ ln = 0 THEN NaN ELSE Num(0)
             ELSE IF big THEN Num(100)
             ELSE IF d.by = "area" THEN Num((d.den * 100 * 100) \div (2 * k * ln))
             ELSE Num((SqrtCenti(d.den) * 100) \div (k * ln))
  IN  [s EXCEPT !.H = h, !.D = d, !.scoreS = sc]

ScoreGuard(s) == s.area # 0 /\ Len(s.points) > 2 /\ Len(s.pointsCH) > 2

\* the body of getOrientation once M = Zmax is known
Orientation(s) ==
  LET M    == point_t(s.Zmax)
      n    == s.nbPoints
      dx   == SumSeq([j \in 1..n |-> s.points[j].x])
      dy   == SumSeq([j \in 1..n |-> s.points[j].y])
      MG   == SqrtCenti((n * M[1] - dx) * (n * M[1] - dx)
                        + (n * M[2] - dy) * (n * M[2] - dy)) \div n
      GCH  == SumSeq([j \in 1..Len(s.pointsCH) |-> SqrtCenti(SqDist(M, s.pointsCH[j]))])
                \div Len(s.pointsCH)
  IN  IF 2 * MG <= GCH THEN Num(100 - (200 * MG) \div GCH) ELSE Num(0)

\* TreeSegment::getOrientation: the trackers it may leave
getOrientation(s) ==
  IF ScoreGuard(s)
  THEN {[t EXCEPT !.scoreO = Orientation(t)] : t \in getZMax(s)}
  ELSE {[s EXCEPT !.scoreO = Num(0)]}

\* the rank taken with ceil
index_ceil(size) == (95 * size + 99) \div 100

\* int index_percentile95 = round(planimetricDist_MCH.size() * 0.95)
index_percentile95(size) == (95 * size + 50) \div 100

\* the radius of getRegularity once M = Zmax is known (squared)
Radius(s) ==
  LET M == point_t(s.Zmax)
      planimetricDist_MCH ==
        SortAscending([j \in 1..Len(s.pointsCH) |-> SqDist(M, s.pointsCH[j])])
  IN  planimetricDist_MCH[index_percentile95(Len(planimetricDist_MCH))]

\* scoreR = area_CH / (PI * radius * radius)
Regularity(area_CH, r2) ==
  IF r2 = 0 THEN PosInf ELSE Num((area_CH * 100 * 100) \div (2 * 314 * r2))

\* TreeSegment::getRegularity: the trackers it may leave
getRegularity(s) ==
  IF s.area # 0 /\ s.nbPoints > 2 /\ Len(s.pointsCH) > 2
  THEN {[t EXCEPT !.radius = Radius(t), !.scoreR = Regularity(t.area, Radius(t))] :
          t \in getZMax(s)}
  ELSE {[s EXCEPT !.scoreR = Num(0)]}

\* TreeSegment::getCircularity.  The axes A and B come out of armadillo's
\* princomp and are not evaluated here: the score is 0 (B = 0) or the ratio
\* A/B, kept symbolic.  scoreGlobal, the mean of the four, is kept as the
\* four values it averages.
getCircularity(s) ==
  {[s EXCEPT !.scoreC = c, !.scoreGlobal = <<"mean", s.scoreS, s.scoreO, s.scoreR, c>>] :
     c \in IF ScoreGuard(s) THEN {Num(0), <<"A/B", 0>>} ELSE {Num(0)}}

\* TreeSegment::getScore: getSize, getOrientation, getRegularity,
\* getCircularity in turn
getScore(s, k) ==
  UNION {UNION {getCircularity(t2) : t2 \in getRegularity(t1)} :
           t1 \in getOrientation(getSize(s, k))}

\* ----------------------------------------------------------- specification
Holds(s) ==
  /\ nbPoints = s.nbPoints
  /\ points = s.points
  /\ convex_hull = s.convex_hull
  /\ pointsCH = s.pointsCH
  /\ area = s.area
  /\ diff_area = s.diff_area
  /\ dist = s.dist
  /\ Zmax = s.Zmax
  /\ scoreS = s.scoreS
  /\ scoreO = s.scoreO
  /\ scoreR = s.scoreR
  /\ scoreC = s.scoreC
  /\ scoreGlobal = s.scoreGlobal
  /\ H = s.H
  /\ D = s.D
  /\ radius = s.radius
  /\ lastOp = "TreeSegment"

\* A tracker as either constructor leaves it.
Init ==
  /\ \E s \in {EmptySegment([x |-> 0, y |-> 0, z |-> h]) : h \in 0..MaxZ}
               \cup {SeededSegment(pt) : pt \in PointXYZ} : Holds(s)
  /\ subProfile = <<>>
  /\ subProfileSubset = <<>>

AddPoint ==
  /\ nbPoints < MaxScored
  /\ \E pt \in PointXYZ : Becomes(addPoint(Self, pt), "addPoint")

UpdateArea ==
  /\ points = points
  /\ Becomes(updateArea(Self), "updateArea")

GetSize ==
  /\ points = points
  /\ \E k \in 1..MaxK : Becomes(getSize(Self, k), "getSize")

GetScore ==
  /\ points = points
  /\ \E k \in 1..MaxK : \E t \in getScore(Self, k) : Becomes(t, "getScore")

Next == AddPoint \/ GetSize \/ GetScore

\* The tracker under a caller that adds points and scores.
Spec == Init /\ [][Next]_vars

\* The tracker under a caller that adds points and refreshes the area (the
\* tree merge, the one user of updateArea).  The scoring functions write none
\* of nbPoints, convex_hull, pointsCH, area, diff_area and dist, and only
\* reorder points, so the hulls met here are those of every caller.
Grow ==
  /\ nbPoints < MaxPoints
  /\ \E pt \in PointXYZ : Becomes(addPoint(Self, pt), "addPoint")

NextGrow == Grow \/ UpdateArea

SpecGrow == Init /\ [][NextGrow]_vars

\* ------------------------------------------------------ the outlier filter
\* euclidianDistance2D_inZ: the planar distance of two points.  The filtered
\* points lie on the x axis, where it is the whole number |a.x - b.x|.
euclidianDistance2D_inZ(a, b) == Isqrt(SqDist(point_t(a), point_t(b)))

\* In apply2DFilter the local vector `dist` (here distv) hides the member.
\* dist[i] < threshold: the strict comparison
BelowThreshold_strict(d, distv) ==
  LET n   == Len(distv)
      sum == SumSeq([i \in 1..n |-> (n * distv[i] - SumSeq(distv)) * (n * distv[i] - SumSeq(distv))])
      L   == n * d - SumSeq(distv)
  IN  L < 0 \/ (L > 0 /\ L * L * n < 4 * sum) \/ (L = 0 /\ sum > 0)

\* dist[i] <= threshold, with threshold = mean + 2 * std, mean the sum of
\* dist over its size n and std = sqrt(sum / n), sum that of the squares
\* (dist[i] - mean)^2.  In exact arithmetic, with L = n * (d - mean):
\* d <= threshold  iff  L <= 0 or L^2 * n <= 4 * (n^2 * sum).
BelowThreshold(d, distv) ==
  LET n   == Len(distv)
      sum == SumSeq([i \in 1..n |-> (n * distv[i] - SumSeq(distv)) * (n * distv[i] - SumSeq(distv))])
      L   == n * d - SumSeq(distv)
  IN  L <= 0 \/ L * L * n <= 4 * sum

\* the while loop of apply2DFilter; i counts from 0 as in the code
RECURSIVE FilterLoop(_, _, _, _)
FilterLoop(sub, distv, i, subset) ==
  IF i < Len(sub) - 1 /\ BelowThreshold(distv[i + 1], distv)
  THEN FilterLoop(sub, distv, i + 1, Append(subset, sub[i + 2]))
  ELSE subset

\* TreeSegment::apply2DFilter
apply2DFilter(sub, subset) ==
  LET distv == [i \in 1..(Len(sub) - 1) |-> euclidianDistance2D_inZ(sub[1], sub[i + 1])]
  IN  FilterLoop(sub, distv, 0, Append(subset, sub[1]))

FilterPoints == [x : 0..MaxOffset, y : {0}, z : {1}]

\* A neighbourhood to filter: a reference point and its neighbours.
InitFilter ==
  /\ Holds(EmptySegment([x |-> 0, y |-> 0, z |-> 0]))
  /\ subProfile \in UNION {[1..n -> FilterPoints] : n \in 1..(MaxNeighbours + 1)}
  /\ subProfileSubset = <<>>

Apply2DFilter ==
  /\ lastOp = "TreeSegment"
  /\ subProfileSubset' = apply2DFilter(subProfile, subProfileSubset)
  /\ lastOp' = "apply2DFilter"
  /\ UNCHANGED <<nbPoints, points, convex_hull, pointsCH, area, diff_area, dist,
                 Zmax, scoreS, scoreO, scoreR, scoreC, scoreGlobal, H, D, radius,
                 subProfile>>

NextFilter == Apply2DFilter

SpecFilter == InitFilter /\ [][NextFilter]_vars

\* ----------------------------------------------- regularity of a large hull
\* The vertices of a convex polygon, in turn: the points a caller feeds a
\* tracker whose hull is to have many vertices.
Polygon ==
  << <<1, 0>>, <<2, 0>>, <<4, 1>>, <<5, 2>>, <<6, 4>>, <<6, 5>>,
     <<5, 6>>, <<4, 6>>, <<2, 5>>, <<1, 4>>, <<0, 2>>, <<0, 1>> >>

RECURSIVE MinZOf(_)
MinZOf(pts) ==
  IF Len(pts) = 1 THEN pts[1].z
  ELSE LET m == MinZOf(Tail(pts)) IN IF pts[1].z < m THEN pts[1].z ELSE m

RECURSIVE MaxZOf(_)
MaxZOf(pts) ==
  IF Len(pts) = 1 THEN pts[1].z
  ELSE LET m == MaxZOf(Tail(pts)) IN IF pts[1].z > m THEN pts[1].z ELSE m

InitRegular ==
  /\ Holds(SeededSegment([x |-> Polygon[1][1], y |-> Polygon[1][2], z |-> MaxVertices]))
  /\ subProfile = <<>>
  /\ subProfileSubset = <<>>

\* addPoint of the polygon's next vertex, higher or lower than every point so far
AddVertex ==
  /\ nbPoints < MaxVertices
  /\ nbPoints < Len(Polygon)
  /\ \E z \in {MaxZOf(points) + 1, MinZOf(points) - 1} :
       Becomes(addPoint(Self, [x |-> Polygon[nbPoints + 1][1],
                               y |-> Polygon[nbPoints + 1][2], z |-> z]), "addPoint")

GetRegularity ==
  /\ points = points
  /\ \E t \in getRegularity(Self) : Becomes(t, "getRegularity")

NextRegular == AddVertex \/ GetRegularity

SpecRegular == InitRegular /\ [][NextRegular]_vars

\* ------------------------------------------------------------------ claims
Projection(pts) == [i \in 1..Len(pts) |-> point_t(pts[i])]

\* strictly inside a clockwise ring of non-zero area
StrictlyInside(p, ring) ==
  \A i \in 1..(Len(ring) - 1) : Side(ring[i], ring[i + 1], p) < 0

\* the point the last addPoint appended
NewPoint == point_t(points'[Len(points')])

\* C1: the (x, y) projection of every point held in `points` lies inside or
\* on the boundary of the current hull, in every reachable state, the ones
\* with one or two points or with collinear points included.
C1_Containment ==
  \A i \in 1..Len(points) : InRing(point_t(points[i]), convex_hull)

\* Four points, a hull of non-zero area and a point strictly inside it.
C1_Witness ==
  /\ nbPoints = 4
  /\ area > 0
  /\ \E i \in 1..Len(points) : StrictlyInside(point_t(points[i]), convex_hull)

\* C2: the addPoint that takes a tracker seeded with one point P0 to two
\* points leaves dist equal to the planar distance of P0 and P1 (here its
\* square) and area equal to 0.
C2_TwoPointTransition ==
  [][(nbPoints = 1 /\ Len(convex_hull) = 1 /\ nbPoints' = 2)
       => (/\ dist' = SqDist(point_t(points'[1]), point_t(points'[2]))
           /\ area' = 0)]_vars

\* C3: getScore leaves points (content and order), nbPoints, the hull,
\* pointsCH and area as they were.
C3_ScoringFrame ==
  [][lastOp' = "getScore"
       => (/\ points' = points
           /\ nbPoints' = nbPoints
           /\ convex_hull' = convex_hull
           /\ pointsCH' = pointsCH
           /\ area' = area)]_vars

\* what addPoint leaves alone when it only appends the point
OnlyAppended ==
  /\ points' = Append(points, points'[Len(points')])
  /\ area' = area
  /\ convex_hull' = convex_hull
  /\ pointsCH' = pointsCH
  /\ diff_area' = diff_area
  /\ dist' = dist

C5_HullMonotone == [](diff_area >= 0) /\ [][area' >= area]_vars

\* The last addPoint enlarged a hull that already had a non-zero area.
C5_Witness ==
  /\ lastOp = "addPoint"
  /\ diff_area > 0
  /\ area > diff_area

\* C6: the D of getSize never comes out of a division by zero.
C6_DensityGuard == lastOp \in {"getSize", "getScore"} => D.den # 0

\* C9: the H of getSize, called alone or as the first step of getScore, is
\* the largest z of the points the tracker holds (stated for a tracker whose
\* Zmax has been set from its own points, by the seeded constructor or by
\* getZMax).
C9_SizeUsesCurrentMax ==
  (lastOp \in {"getSize", "getScore"} /\ \E i \in 1..Len(points) : points[i] = Zmax)
    => H = MaxZOf(points)

\* C8: the hull kept by addPoint has the vertices, and area the value, of the
\* convex hull of all the points computed from scratch (as updateArea does).
C8_IncrementalIsFull ==
  LET hull == ConvexHullOf(Projection(points))
  IN  /\ RingSet(convex_hull) = RingSet(hull)
      /\ area = AreaOf(hull)

\* The third point was covered by the segment of the first two and left out
\* of the hull; the fourth point then made the hull a triangle.
C8_Witness ==
  /\ lastOp = "addPoint"
  /\ nbPoints = 4
  /\ diff_area > 0
  /\ point_t(points[3]) \notin {point_t(points[1]), point_t(points[2])}
  /\ covered_by(point_t(points[3]), ConvexHullOf(Projection(SubSeq(points, 1, 2))))
  /\ point_t(points[3]) \notin RingSet(convex_hull)

\* the distances of the neighbours of subProfile to its reference point
NeighbourDist ==
  [i \in 1..(Len(subProfile) - 1) |->
     euclidianDistance2D_inZ(subProfile[1], subProfile[i + 1])]

\* d <= mean + 2 * std of the distances, std the population standard
\* deviation: with n the number of distances, S their sum and Q the sum of
\* their squares, n * d - S <= 2 * sqrt(n * Q - S^2).
C7_Within(d) ==
  LET n == Len(NeighbourDist)
      S == SumSeq(NeighbourDist)
      Q == SumSeq([i \in 1..n |-> NeighbourDist[i] * NeighbourDist[i]])
  IN  n * d <= S \/ (n * d - S) * (n * d - S) <= 4 * (n * Q - S * S)

\* C7: apply2DFilter outputs the reference point followed by exactly the
\* longest prefix of the neighbours whose distance to the reference point is
\* at most mean + 2 * std: the first neighbour beyond the threshold and all
\* the neighbours after it are left out, a neighbour at the threshold is kept.
C7_PrefixStop ==
  lastOp = "apply2DFilter" =>
    LET kept == Len(subProfileSubset) - 1 IN
    /\ kept \in 0..(Len(subProfile) - 1)
    /\ subProfileSubset = SubSeq(subProfile, 1, kept + 1)
    /\ \A j \in 1..kept : C7_Within(NeighbourDist[j])
    /\ kept < Len(subProfile) - 1 => ~C7_Within(NeighbourDist[kept + 1])

\* Six neighbours; the third is beyond the threshold and stops the scan,
\* though the fourth is within it.
C7_Witness ==
  /\ lastOp = "apply2DFilter"
  /\ Len(subProfile) = 7
  /\ Len(subProfileSubset) = 3
  /\ C7_Within(NeighbourDist[4])

\* the distances (squared) from the highest point to the entries of pointsCH
DistMCH == [j \in 1..Len(pointsCH) |-> SqDist(point_t(Zmax), pointsCH[j])]

\* the distances (squared) from the highest point to the vertices of the
\* hull, each taken once (the ring repeats its first vertex at its end)
DistVertices == [j \in 1..(Len(pointsCH) - 1) |-> DistMCH[j]]

\* v is the rank-th smallest of the values of ds
IsRanked(v, ds, rank) ==
  /\ \E j \in 1..Len(ds) : ds[j] = v
  /\ Cardinality({j \in 1..Len(ds) : ds[j] < v}) < rank
  /\ Cardinality({j \in 1..Len(ds) : ds[j] <= v}) >= rank

Regular == lastOp = "getRegularity" /\ area # 0 /\ nbPoints > 2 /\ Len(pointsCH) > 2

\* C10 as stated: with n the number of hull vertices, the radius of
\* getRegularity is the ceil(0.95 * n)-th smallest of the distances from the
\* highest point to the n vertices.
C10_RadiusAsStated ==
  Regular =>
    LET n    == Len(DistVertices)
        rank == CHOOSE i \in 1..n : 100 * (i - 1) < 95 * n /\ 95 * n <= 100 * i
    IN  IsRanked(radius, DistVertices, rank)

\* C10 amended: with m the number of entries of pointsCH (the closed ring:
\* the hull vertices and the first of them again), the radius is the
\* round(0.95 * m)-th smallest of the distances from the highest point to the
\* m entries, round taking halves up; the rank lies in 1..m.
C10_RadiusRank ==
  Regular =>
    LET m == Len(DistMCH)
    IN  /\ \E i \in 1..m : 2 * 100 * i - 100 <= 2 * 95 * m /\ 2 * 95 * m < 2 * 100 * i + 100
        /\ IsRanked(radius, DistMCH,
             CHOOSE i \in 1..m : 2 * 100 * i - 100 <= 2 * 95 * m
                                 /\ 2 * 95 * m < 2 * 100 * i + 100)

\* A hull of ten vertices whose radius is not the largest of the distances.
C10_Witness ==
  /\ Regular
  /\ Len(pointsCH) = 11
  /\ \E j \in 1..Len(DistMCH) : DistMCH[j] > radius

====
